---- MODULE Spec2Model ----
(***************************************************************************)
(* Model of the AIMHi voice-interview backend:                             *)
(*   - the media relay of main.py (handle_media_stream with its two tasks  *)
(*     receive_from_twilio / send_to_twilio, and the transcript file       *)
(*     helpers open/write/close_transcript_file);                          *)
(*   - the slot extractor of extract_interview_schedule.py.                *)
(* Every coroutine body between two awaits that really suspend runs        *)
(* atomically on the asyncio loop, so one handled frame is one action.     *)
(* open/write/close_transcript_file are "async def" without any await in   *)
(* their bodies, so they never yield to the loop.                          *)
(***************************************************************************)
EXTENDS Integers, Sequences, FiniteSets, TLC

\* ----------------------------------------------------------------- bounds
\* 'start' frames handled, over all connections
MaxStarts == 2
\* pieces of text a transcript is put together from
MaxSegs == 3
\* transcript and audio events the speech legs deliver, over all connections
MaxTx == 3
\* media frames of the telephony leg whose payload is followed
MaxAudio == 2
\* .txt entries of the call-transcripts directory
MaxFiles == 3

\* ------------------------------------------------------------ input sets
\* websocket connections to /media-stream; Spec follows one call, SpecTwo
\* two calls side by side
Conns == {"c1", "c2"}
Sids == {"s1", "s2"}
None == "None"
\* payloads of response.audio_transcript.delta ('' is falsy, ' ' is blank)
DeltaTexts == {<<>>, <<"a">>, <<" ">>}
\* payloads of conversation.item.input_audio_transcription.completed
UserTexts == {<<"u">>, <<" ">>}
\* base64 payloads of the media frames of the telephony leg
MediaPayloads == {"p", "q"}
\* 'delta' of response.audio.delta: base64 text, or '' (falsy)
AudioDeltas == {"", "p", "q"}
User == "User"
AI == "AI Assistant (Sarah)"

VARIABLES
    conversation_transcripts,   \* main.py:56, stream sid -> [messages]
    transcript_file_handles,    \* main.py:57, stream sid -> index into handles
    handles,                    \* every file object ever opened, in order
    stream_sid,                 \* nonlocal stream_sid of each connection
    pc,                         \* where handle_media_stream stands
    rx,                         \* state of the task receive_from_twilio
    tx,                         \* state of the task send_to_twilio
    oa,                         \* state of the speech-leg websocket
    ntx,                        \* transcript events handled so far
    closeInv,                   \* history: close_transcript_file calls per sid
    closeRaised,                \* history: an exception left close_transcript_file
    phase, acc,                 \* history: the assistant response in progress
    nfinal,                     \* history: utterances finalized per session
    rdone,                      \* history: a response.done event was handled
    tw,                         \* state of the telephony websocket
    io,                         \* whether the file system takes writes
    fwd,                        \* input_audio_buffer.append events sent to
                                \* the speech leg
    sent,                       \* media frames sent to the telephony leg
    heard,                      \* history: audio deltas with a payload that
                                \* arrived while the telephony leg was up
    late,                       \* history: a transcript event was handled
                                \* after the session of the call was closed
    content,                    \* the text extract_interview_slot reads
    result,                     \* what extract_interview_slot returns
    xpc,                        \* where the extraction stands
    transcript_files,           \* the files process_all_transcripts lists
    results,                    \* its list of results
    reports,                    \* what it has printed, one entry per file
    bpc                         \* where process_all_transcripts stands

relayVars == <<conversation_transcripts, transcript_file_handles, handles,
               stream_sid, pc, rx, tx, oa, ntx>>
histVars == <<closeInv, closeRaised, phase, acc, nfinal>>
batchVars == <<transcript_files, results, reports, bpc>>
extractVars == <<content, result, xpc, batchVars>>
audioVars == <<fwd, sent, heard>>
vars == <<relayVars, histVars, extractVars, rdone, tw, io, audioVars, late>>

\* ---------------------------------------------------------------- helpers
Last(s) == s[Len(s)]
\* text.strip() == ''
Blank(t) == \A i \in 1..Len(t) : t[i] = " "
EmptyMap == [x \in {} |-> 0]
\* d[k] = v
Put(d, k, v) == [x \in DOMAIN d \cup {k} |-> IF x = k THEN v ELSE d[x]]
\* del d[k]
Del(d, k) == [x \in DOMAIN d \ {k} |-> d[x]]

Entry(kind, speaker, text) == [kind |-> kind, speaker |-> speaker, text |-> text]
Header(sid) == Entry("header", sid, <<>>)
Footer == Entry("footer", "", <<>>)
Line(speaker, text) == Entry("line", speaker, text)

\* the module-level objects the helpers work on; err: an exception is
\* propagating; fault: the file system refuses open() and write()
Store == [ct |-> conversation_transcripts,
          fh |-> transcript_file_handles,
          hs |-> handles,
          err |-> FALSE,
          fault |-> io = "fail"]
\* "except Exception as e: print(...)"
Caught(g) == [g EXCEPT !.err = FALSE]
Raise(g) == [g EXCEPT !.err = TRUE]

\* a write that puts the text at the head of the file
FileWriteAtHead(g, h, e) == [g EXCEPT !.hs[h].content = <<e>> \o @]
\* file_handle.write(x) on a file object: ValueError once it is closed,
\* OSError when the file system refuses
CanWrite(g, h) == ~g.hs[h].closed /\ ~g.fault
FileWrite(g, h, e) == [g EXCEPT !.hs[h].content = Append(@, e)]
\* file_handle.flush(): what was written so far leaves the buffer of the
\* file object; durable counts the entries that have
FileFlush(g, h) == [g EXCEPT !.hs[h].durable = Len(g.hs[h].content)]

\* main.py:472-503
open_transcript_file(g, sid) ==
    LET h == Len(g.hs) + 1
        f == [sid |-> sid, content |-> <<Header(sid)>>, durable |-> 1,
              closed |-> FALSE, closes |-> 0]
    IN  IF g.fault
        THEN Caught(Raise(g))
        ELSE [g EXCEPT !.hs = Append(@, f), !.fh = Put(@, sid, h)]

\* file_handle.close(): flushes; closing a closed file object is allowed
FileClose(g, h) ==
    [FileFlush(g, h) EXCEPT !.hs[h].closed = TRUE, !.hs[h].closes = @ + 1]

\* the write without its try/except
write_unguarded(g, sid, speaker, text) ==
    IF sid \in DOMAIN g.fh
    THEN LET h == g.fh[sid]
         IN  IF CanWrite(g, h)
             THEN FileFlush(FileWrite(g, h, Line(speaker, text)), h)
             ELSE Raise(g)
    ELSE g

\* main.py:506-517
write_to_transcript_file(g, sid, speaker, text) ==
    Caught(IF sid \in DOMAIN g.fh
           THEN LET h == g.fh[sid]
                IN  IF CanWrite(g, h)
                    THEN FileFlush(FileWrite(g, h, Line(speaker, text)), h)
                    ELSE Raise(g)
           ELSE g)

\* the body of the try block, main.py:535-553
close_body(g, sid) ==
    IF sid \in DOMAIN g.fh
    THEN LET h == g.fh[sid]
         IN  IF CanWrite(g, h)
             THEN LET g1 == FileClose(FileWrite(g, h, Footer), h)
                      g2 == [g1 EXCEPT !.fh = Del(@, sid)]
                  IN  IF sid \in DOMAIN g2.ct
                      THEN [g2 EXCEPT !.ct = Del(@, sid)]
                      ELSE g2
             ELSE Raise(g)
    ELSE g

\* the close without the clean-up of 549-551
close_keep_entry(g, sid) ==
    Caught(IF sid \in DOMAIN g.fh
           THEN LET h == g.fh[sid]
                IN  IF CanWrite(g, h)
                    THEN FileClose(FileWrite(g, h, Footer), h)
                    ELSE Raise(g)
           ELSE g)

\* a close that writes the footer and leaves the file open and registered
close_footer_only(g, sid) ==
    Caught(IF sid \in DOMAIN g.fh
           THEN LET h == g.fh[sid]
                IN  IF CanWrite(g, h)
                    THEN FileFlush(FileWrite(g, h, Footer), h)
                    ELSE Raise(g)
           ELSE g)

\* a close that empties both registries
close_clear_all(g, sid) ==
    [Caught(close_body(g, sid)) EXCEPT !.fh = EmptyMap, !.ct = EmptyMap]

\* main.py:532-556
close_transcript_file(g, sid) == Caught(close_body(g, sid))

\* "if stream_sid: await close_transcript_file(stream_sid)"
CloseIfStarted(g, c) ==
    IF stream_sid[c] # None THEN close_transcript_file(g, stream_sid[c]) ELSE g

SetStore(g) ==
    /\ conversation_transcripts' = g.ct
    /\ transcript_file_handles' = g.fh
    /\ handles' = g.hs

\* "if stream_sid: await close_transcript_file(stream_sid)" at 344, 349, 468
CallClose(c) ==
    LET g == CloseIfStarted(Store, c)
    IN  /\ SetStore(g)
        /\ closeInv' = IF stream_sid[c] # None
                       THEN [closeInv EXCEPT ![stream_sid[c]] = @ + 1]
                       ELSE closeInv
        /\ closeRaised' = (closeRaised \/ g.err)

\* ------------------------------------------------- history bookkeeping
\* "if stream_sid and stream_sid in conversation_transcripts"
Active(c) ==
    /\ stream_sid[c] # None
    /\ stream_sid[c] \in DOMAIN conversation_transcripts

\* the session of the call on c has been closed: a stream id was set by a
\* 'start' frame and close_transcript_file has removed its record
Closed(c) ==
    /\ stream_sid[c] # None
    /\ closeInv[stream_sid[c]] > 0
    /\ ~Active(c)

\* the server with the connections `calls` accepted (295)
RelayInitFor(calls) ==
    /\ conversation_transcripts = EmptyMap
    /\ transcript_file_handles = EmptyMap
    /\ handles = <<>>
    /\ stream_sid = [c \in Conns |-> None]
    /\ pc = [c \in Conns |-> IF c \in calls THEN "accept" ELSE "idle"]
    /\ rx = [c \in Conns |-> "idle"]
    /\ tx = [c \in Conns |-> "idle"]
    /\ oa = [c \in Conns |-> "none"]
    /\ ntx = [c \in Conns |-> 0]
    /\ closeInv = [s \in Sids |-> 0]
    /\ closeRaised = FALSE
    /\ phase = [s \in Sids |-> "none"]
    /\ acc = [s \in Sids |-> <<>>]
    /\ nfinal = [s \in Sids |-> 0]
    /\ rdone = [c \in Conns |-> FALSE]
    /\ tw = [c \in Conns |-> IF c \in calls THEN "open" ELSE "closed"]
    /\ io = "ok"
    /\ fwd = [c \in Conns |-> <<>>]
    /\ sent = [c \in Conns |-> <<>>]
    /\ heard = [c \in Conns |-> 0]
    /\ late = [c \in Conns |-> FALSE]
RelayInit == RelayInitFor({"c1"})

\* ------------------------------------------- handle_media_stream, 291-314
\* await websocket.close() (299, 464): the close frame is sent, or, the
\* telephony leg being gone already, the send raises; no handler surrounds
\* either call, so the exception leaves handle_media_stream
WebsocketClose(c) ==
    /\ tw' = [tw EXCEPT ![c] = "closed"]
    /\ \E gone \in BOOLEAN :
          pc' = [pc EXCEPT ![c] = IF gone THEN "raised" ELSE "returned"]

\* OPENAI_API_KEY missing: websocket.close() and return (297-300)
AcceptNoKey(c) ==
    /\ pc[c] = "accept"
    /\ WebsocketClose(c)
    /\ UNCHANGED <<conversation_transcripts, transcript_file_handles, handles,
                   stream_sid, rx, tx, oa, ntx, histVars>>
    /\ UNCHANGED <<extractVars, late, rdone, io, audioVars>>

\* websockets.connect or initialize_session raises: except at 462, finally at
\* 465 with stream_sid still None
ConnectFail(c) ==
    /\ pc[c] = "accept"
    /\ WebsocketClose(c)
    /\ oa' = [oa EXCEPT ![c] = "closed"]
    /\ UNCHANGED <<conversation_transcripts, transcript_file_handles, handles,
                   stream_sid, rx, tx, ntx, histVars>>
    /\ UNCHANGED <<extractVars, late, rdone, io, audioVars>>

\* connected and initialised: asyncio.gather starts both tasks (461)
ConnectOk(c) ==
    /\ pc[c] = "accept"
    /\ pc' = [pc EXCEPT ![c] = "gather"]
    /\ oa' = [oa EXCEPT ![c] = "open"]
    /\ rx' = [rx EXCEPT ![c] = "run"]
    /\ tx' = [tx EXCEPT ![c] = "run"]
    /\ UNCHANGED <<conversation_transcripts, transcript_file_handles, handles,
                   stream_sid, ntx, histVars>>
    /\ UNCHANGED <<extractVars, late, rdone, tw, io, audioVars>>

\* ----------------------------------------- receive_from_twilio, 316-350
RxReady(c) == pc[c] = "gather" /\ rx[c] = "run"

\* the handlers at 341-345 and 346-350: close the transcript, the task ends
RxRaise(c) ==
    /\ CallClose(c)
    /\ rx' = [rx EXCEPT ![c] = "done"]

\* a 'media' frame (322-327); openai_ws.send raises once that leg is closed
RecvMedia(c) ==
    /\ RxReady(c)
    /\ IF oa[c] = "open"
       THEN UNCHANGED <<conversation_transcripts, transcript_file_handles,
                        handles, rx, closeInv, closeRaised>>
       ELSE RxRaise(c)
    /\ UNCHANGED <<stream_sid, pc, tx, oa, ntx, phase, acc, nfinal>>
    /\ UNCHANGED <<extractVars, late, rdone, tw, io, audioVars>>

\* a 'media' frame with its payload followed (322-327): the payload goes to
\* the speech leg as one input_audio_buffer.append event
RecvMediaFrame(c, p) ==
    /\ RxReady(c)
    /\ Len(fwd[c]) < MaxAudio
    /\ IF oa[c] = "open"
       THEN /\ fwd' = [fwd EXCEPT ![c] = Append(@, p)]
            /\ UNCHANGED <<conversation_transcripts, transcript_file_handles,
                           handles, rx, closeInv, closeRaised>>
       ELSE RxRaise(c) /\ UNCHANGED fwd
    /\ UNCHANGED <<stream_sid, pc, tx, oa, ntx, phase, acc, nfinal>>
    /\ UNCHANGED <<extractVars, late, rdone, tw, io, sent, heard>>

\* the session record and the sink of a 'start' frame (333-340)
StartSession(g, sid) ==
    open_transcript_file(
        [g EXCEPT !.ct = Put(@, sid, [call_sid |-> sid, messages |-> <<>>])],
        sid)

\* a 'start' frame (328-340)
RecvStart(c, sid) ==
    /\ RxReady(c)
    /\ Len(handles) < MaxStarts
    /\ stream_sid' = [stream_sid EXCEPT ![c] = sid]
    /\ SetStore(StartSession(Store, sid))
    /\ phase' = [phase EXCEPT ![sid] = "none"]
    /\ acc' = [acc EXCEPT ![sid] = <<>>]
    /\ nfinal' = [nfinal EXCEPT ![sid] = 0]
    /\ UNCHANGED <<pc, rx, tx, oa, ntx, closeInv, closeRaised>>
    /\ UNCHANGED <<extractVars, late, rdone, tw, io, audioVars>>

\* a frame with any other 'event' value ('connected', 'stop', 'mark'): no branch
RecvOther(c) ==
    /\ RxReady(c)
    /\ UNCHANGED <<conversation_transcripts, transcript_file_handles, handles,
                   stream_sid, pc, rx, tx, oa, ntx, histVars>>
    /\ UNCHANGED <<extractVars, late, rdone, tw, io, audioVars>>

\* a frame json.loads rejects, or one without 'event': except at 346
RecvMalformed(c) ==
    /\ RxReady(c)
    /\ RxRaise(c)
    /\ UNCHANGED <<stream_sid, pc, tx, oa, ntx, phase, acc, nfinal>>
    /\ UNCHANGED <<extractVars, late, rdone, tw, io, audioVars>>

\* the telephony leg disconnects: WebSocketDisconnect reaches 341, or
\* iter_text ends the iteration without raising and the task just returns
TwilioDisconnect(c) ==
    /\ RxReady(c)
    /\ \/ RxRaise(c)
       \/ /\ rx' = [rx EXCEPT ![c] = "done"]
          /\ UNCHANGED <<conversation_transcripts, transcript_file_handles,
                         handles, closeInv, closeRaised>>
    /\ UNCHANGED <<stream_sid, pc, tx, oa, ntx, phase, acc, nfinal>>
    /\ tw' = [tw EXCEPT ![c] = "closed"]
    /\ UNCHANGED <<extractVars, late, rdone, io, audioVars>>

\* ---------------------------------------------- send_to_twilio, 352-459
TxReady(c) == pc[c] = "gather" /\ tx[c] = "run" /\ oa[c] = "open"
RECURSIVE SumOver(_, _)
SumOver(f, S) ==
    IF S = {} THEN 0
    ELSE LET x == CHOOSE y \in S : TRUE IN f[x] + SumOver(f, S \ {x})
TxTake(c) ==
    /\ SumOver(ntx, Conns) < MaxTx
    /\ ntx' = [ntx EXCEPT ![c] = @ + 1]

\* an exception that leaves a branch reaches "except Exception" at 458:
\* the task ends
TxAfter(c, g) == tx' = [tx EXCEPT ![c] = IF g.err THEN "done" ELSE @]

Messages(g, sid) == g.ct[sid].messages
Msg(speaker, text) == [speaker |-> speaker, text |-> text]

\* conversation.item.input_audio_transcription.completed (388-406), inside
\* the guard of 391
on_user_transcript(g, sid, t) ==
    IF ~Blank(t)
    THEN write_to_transcript_file(
             [g EXCEPT !.ct[sid].messages = Append(@, Msg(User, t))],
             sid, User, t)
    ELSE g

\* the delta handler writing each chunk through to the file
on_transcript_delta_write(g, sid, d) ==
    LET messages == Messages(g, sid)
        g1 == IF messages # <<>> /\ Last(messages).speaker = AI
              THEN [g EXCEPT !.ct[sid].messages[Len(messages)].text = @ \o d]
              ELSE [g EXCEPT !.ct[sid].messages = Append(@, Msg(AI, d))]
    IN  IF d # <<>>
        THEN write_to_transcript_file(g1, sid, AI, d)
        ELSE g

\* response.audio_transcript.delta (407-430), inside the guard of 410
on_transcript_delta(g, sid, d) ==
    LET messages == Messages(g, sid)
    IN  IF d # <<>>
        THEN IF messages # <<>> /\ Last(messages).speaker = AI
             THEN [g EXCEPT !.ct[sid].messages[Len(messages)].text = @ \o d]
             ELSE [g EXCEPT !.ct[sid].messages = Append(@, Msg(AI, d))]
        ELSE g

\* response.audio_transcript.done (431-446), inside the guard of 434
on_transcript_done(g, sid) ==
    LET messages == Messages(g, sid)
    IN  IF messages # <<>> /\ Last(messages).speaker = AI
        THEN LET complete_text == Last(messages).text
             IN  IF ~Blank(complete_text)
                 THEN write_to_transcript_file(g, sid, AI, complete_text)
                 ELSE g
        ELSE g

OnUserTranscript(c, t) ==
    /\ TxReady(c)
    /\ TxTake(c)
    /\ late' = [late EXCEPT ![c] = @ \/ Closed(c)]
    /\ IF Active(c)
       THEN /\ SetStore(on_user_transcript(Store, stream_sid[c], t))
            /\ TxAfter(c, on_user_transcript(Store, stream_sid[c], t))
            /\ nfinal' = IF Blank(t) THEN nfinal
                         ELSE [nfinal EXCEPT ![stream_sid[c]] = @ + 1]
       ELSE UNCHANGED <<conversation_transcripts, transcript_file_handles,
                        handles, nfinal, tx>>
    /\ UNCHANGED <<stream_sid, pc, rx, oa, closeInv, closeRaised, phase, acc>>
    /\ UNCHANGED <<extractVars, rdone, tw, io, audioVars>>

OnTranscriptDelta(c, d) ==
    /\ TxReady(c)
    /\ TxTake(c)
    /\ late' = [late EXCEPT ![c] = @ \/ Closed(c)]
    /\ IF Active(c)
       THEN /\ SetStore(on_transcript_delta(Store, stream_sid[c], d))
            /\ IF d # <<>>
               THEN /\ phase' = [phase EXCEPT ![stream_sid[c]] = "accumulating"]
                    /\ acc' = [acc EXCEPT ![stream_sid[c]] =
                                 IF phase[stream_sid[c]] = "accumulating"
                                 THEN @ \o d ELSE d]
               ELSE UNCHANGED <<phase, acc>>
       ELSE UNCHANGED <<conversation_transcripts, transcript_file_handles,
                        handles, phase, acc>>
    /\ UNCHANGED <<stream_sid, pc, rx, tx, oa, closeInv, closeRaised, nfinal>>
    /\ UNCHANGED <<extractVars, rdone, tw, io, audioVars>>

OnTranscriptDone(c) ==
    /\ TxReady(c)
    /\ TxTake(c)
    /\ late' = [late EXCEPT ![c] = @ \/ Closed(c)]
    /\ IF Active(c)
       THEN /\ SetStore(on_transcript_done(Store, stream_sid[c]))
            /\ TxAfter(c, on_transcript_done(Store, stream_sid[c]))
            /\ IF phase[stream_sid[c]] = "accumulating"
               THEN /\ phase' = [phase EXCEPT ![stream_sid[c]] = "finalized"]
                    /\ acc' = [acc EXCEPT ![stream_sid[c]] = <<>>]
                    /\ nfinal' = IF Blank(acc[stream_sid[c]]) THEN nfinal
                                 ELSE [nfinal EXCEPT ![stream_sid[c]] = @ + 1]
               ELSE UNCHANGED <<phase, acc, nfinal>>
       ELSE UNCHANGED <<conversation_transcripts, transcript_file_handles,
                        handles, phase, acc, nfinal, tx>>
    /\ UNCHANGED <<stream_sid, pc, rx, oa, closeInv, closeRaised>>
    /\ UNCHANGED <<extractVars, rdone, tw, io, audioVars>>

\* base64.b64decode and base64.b64encode(...).decode('utf-8') (375-377)
B64Decode(text) == <<"bytes", text>>
B64Encode(bytes) == bytes[2]
MediaFrame(sid, payload) == [event |-> "media", streamSid |-> sid, payload |-> payload]

\* an audio branch without the test of the stream id
OnAudioDeltaUnguarded(c, p) ==
    /\ TxReady(c)
    /\ TxTake(c)
    /\ IF p # "" /\ tw[c] = "open"
       THEN sent' = [sent EXCEPT ![c] =
                        Append(@, MediaFrame(stream_sid[c],
                                             B64Encode(B64Decode(p))))]
       ELSE UNCHANGED sent
    /\ heard' = IF p # "" /\ tw[c] = "open"
                THEN [heard EXCEPT ![c] = @ + 1] ELSE heard
    /\ UNCHANGED <<conversation_transcripts, transcript_file_handles, handles,
                   stream_sid, pc, rx, tx, oa, histVars>>
    /\ UNCHANGED <<extractVars, late, rdone, tw, io, fwd>>

\* response.audio.delta with its payload followed (370-387): with a stream
\* id, the payload is re-encoded and sent as one media frame; a send that
\* fails is caught at 386
OnAudioDelta(c, p) ==
    /\ TxReady(c)
    /\ TxTake(c)
    /\ IF p # "" /\ stream_sid[c] # None /\ tw[c] = "open"
       THEN sent' = [sent EXCEPT ![c] =
                        Append(@, MediaFrame(stream_sid[c],
                                             B64Encode(B64Decode(p))))]
       ELSE UNCHANGED sent
    /\ heard' = IF p # "" /\ tw[c] = "open"
                THEN [heard EXCEPT ![c] = @ + 1] ELSE heard
    /\ UNCHANGED <<conversation_transcripts, transcript_file_handles, handles,
                   stream_sid, pc, rx, tx, oa, histVars>>
    /\ UNCHANGED <<extractVars, late, rdone, tw, io, fwd>>

\* a response.done that ends the call: the session closed, the task over
ResponseDoneEnds(c) ==
    /\ TxReady(c)
    /\ rdone' = [rdone EXCEPT ![c] = TRUE]
    /\ CallClose(c)
    /\ tx' = [tx EXCEPT ![c] = "done"]
    /\ UNCHANGED <<stream_sid, pc, rx, oa, ntx, phase, acc, nfinal>>
    /\ UNCHANGED <<extractVars, late, tw, io, audioVars>>

\* response.done (447-451): a print
ResponseDone(c) ==
    /\ TxReady(c)
    /\ rdone' = [rdone EXCEPT ![c] = TRUE]
    /\ UNCHANGED <<relayVars, histVars>>
    /\ UNCHANGED <<extractVars, late, tw, io, audioVars>>

\* session.updated, speech_started/stopped, audio whose payload is not
\* followed, or a type no branch names (368-387, 452-456)
OtherEvent(c) ==
    /\ TxReady(c)
    /\ UNCHANGED <<relayVars, histVars>>
    /\ UNCHANGED <<extractVars, late, rdone, tw, io, audioVars>>

\* an event json.loads rejects, or one without 'type': except at 458, the
\* task ends and the speech leg stays connected
OutboundError(c) ==
    /\ TxReady(c)
    /\ tx' = [tx EXCEPT ![c] = "done"]
    /\ UNCHANGED <<conversation_transcripts, transcript_file_handles, handles,
                   stream_sid, pc, rx, oa, ntx, histVars>>
    /\ UNCHANGED <<extractVars, late, rdone, tw, io, audioVars>>

\* the speech leg closes: "async for openai_message in openai_ws" ends
OpenAIClose(c) ==
    /\ pc[c] = "gather"
    /\ oa[c] = "open"
    /\ oa' = [oa EXCEPT ![c] = "closed"]
    /\ tx' = [tx EXCEPT ![c] = "done"]
    /\ UNCHANGED <<conversation_transcripts, transcript_file_handles, handles,
                   stream_sid, pc, rx, ntx, histVars>>
    /\ UNCHANGED <<extractVars, late, rdone, tw, io, audioVars>>

\* gather returns once both tasks have ended; "async with" closes the speech
\* leg; finally at 465-469
Finish(c) ==
    /\ pc[c] = "gather"
    /\ rx[c] = "done"
    /\ tx[c] = "done"
    /\ CallClose(c)
    /\ pc' = [pc EXCEPT ![c] = "returned"]
    /\ oa' = [oa EXCEPT ![c] = "closed"]
    /\ UNCHANGED <<stream_sid, rx, tx, ntx, phase, acc, nfinal>>
    /\ UNCHANGED <<extractVars, late, rdone, tw, io, audioVars>>

\* ======================================================================
\* extract_interview_schedule.py
\* The transcript text is a sequence of tokens; a token is a word, a line
\* break, or one of the digit groups the patterns look for:
\*   num   "06-29-2025"            a-b-c as written
\*   mdy   "January 5th, 2041"     month a, day b, year c (0: no year)
\*   time  "04:30 PM"              hour digits a, minute digits b, AM/PM f,
\*                                 written as c: 0 "4:30 PM", 1 "4 PM",
\*                                 2 "4.30 PM", 3 "430 PM"
\* Words are atoms: a pattern literal matches a word token that contains it.
Tok(k, a, b, c, f) == [k |-> k, a |-> a, b |-> b, c |-> c, f |-> f]
W(f) == Tok("w", 0, 0, 0, f)
NL == Tok("nl", 0, 0, 0, "")
NumDate(a, b, c) == Tok("num", a, b, c, "")
MDY(mon, day, year) == Tok("mdy", mon, day, year, "")
TimeTok(h, m, form, ap) == Tok("time", h, m, form, ap)
NoTok == Tok("none", 0, 0, 0, "")

\* words of the alphabet that contain the literal (re.IGNORECASE)
WordsWith(lit) ==
    CASE lit = "schedule" -> {"schedule", "scheduled"}
      [] OTHER -> {lit}
Has(t, lit) == t.k = "w" /\ t.f \in WordsWith(lit)
IsPrep(t) == t.k = "w" /\ t.f \in {"for", "on"}

\* \s* from position i on: the first position that is not a line break
RECURSIVE SkipWs(_, _)
SkipWs(s, i) ==
    IF i <= Len(s) /\ s[i].k = "nl" THEN SkipWs(s, i + 1) ELSE i
At(s, i) == IF i >= 1 /\ i <= Len(s) THEN s[i] ELSE NoTok
\* .*? without re.DOTALL may not cross a line break
NoNl(s, i, j) == \A x \in i..j : s[x].k # "nl"

Pos(s) == 1..Len(s)
LexLeq(t, u) ==
    \/ t[1] < u[1]
    \/ t[1] = u[1] /\ t[2] < u[2]
    \/ t[1] = u[1] /\ t[2] = u[2] /\ t[3] <= u[3]
LexMin(T) == CHOOSE t \in T : \A u \in T : LexLeq(t, u)

\* (\d{1,2}[:\.]?\d{0,2}\s*(?:AM|PM|am|pm)), lines 60 and 72
IsTime(t) == t.k = "time" /\ t.f \in {"AM", "PM"}
\* (\d{1,2}:\d{2}\s*(?:AM|PM)), the time group of line 22
IsStdTime(t) == IsTime(t) /\ t.c = 0
\* [A-Za-z]+\s+\d{1,2}(?:st|nd|rd|th)?,?\s*\d{4}, lines 26-29 and 68
IsYearDate(t) == t.k = "mdy" /\ t.c # 0

\* on\s*(num)\s*at\s*(time) at position k: the positions of the two groups
StdDatePos(s, k) == SkipWs(s, k + 1)
StdAtPos(s, k) == SkipWs(s, StdDatePos(s, k) + 1)
StdTimePos(s, k) == SkipWs(s, StdAtPos(s, k) + 1)
StdTail(s, k) ==
    /\ s[k].k = "w" /\ s[k].f = "on"
    /\ At(s, StdDatePos(s, k)).k = "num"
    /\ At(s, StdAtPos(s, k)).k = "w" /\ At(s, StdAtPos(s, k)).f = "at"
    /\ IsStdTime(At(s, StdTimePos(s, k)))

\* line 22: confirm.*?interview.*?on\s*(..)\s*at\s*(..), every way to match
StdMatches(s) ==
    {t \in {i \in Pos(s) : Has(s[i], "confirm")}
            \X {j \in Pos(s) : Has(s[j], "interview")}
            \X {k \in Pos(s) : StdTail(s, k)} :
        /\ t[1] < t[2] /\ t[2] < t[3]
        /\ NoNl(s, t[1] + 1, t[3] - 1)}

\* lines 26-29: word.*?(?:for|on)\s*(date) under re.DOTALL, every way to match
legacy_patterns == <<"scheduled", "schedule", "meeting", "interview">>
LegacyMatches(s, lit) ==
    {t \in {i \in Pos(s) : Has(s[i], lit)}
            \X {k \in Pos(s) : IsPrep(s[k]) /\ IsYearDate(At(s, SkipWs(s, k + 1)))}
            \X {0} :
        t[1] < t[2]}

\* lines 45-56: the first pattern of the list that matches at all
RECURSIVE FirstLegacy(_, _)
FirstLegacy(s, p) ==
    IF p > Len(legacy_patterns) THEN <<>>
    ELSE IF LegacyMatches(s, legacy_patterns[p]) # {}
         THEN LexMin(LegacyMatches(s, legacy_patterns[p]))
         ELSE FirstLegacy(s, p + 1)

\* re.findall(time pattern): the time mentions in text order
TimeMatches(s) == SelectSeq(s, IsTime)

\* the digits \d{1,2} finds at the head of a token that starts with digits
StartsWithDigit(t) == t.k \in {"num", "time"}
LeadDigits(t) ==
    IF t.k = "time" /\ t.c = 3 /\ t.a < 10 THEN t.a * 10 + (t.b \div 10)
    ELSE t.a
\* a token whose text ends in letters: a word, or the AM/PM of a time
EndsWithLetters(t) == t.k = "w" \/ IsTime(t)

\* ([A-Za-z]+\s+\d{1,2}(?:st|nd|rd|th)?), line 70, matching from position x:
\* a month-day text (a year that follows stays outside the match), or a
\* word and the leading digits of the next token
P3Hit(s, x) ==
    \/ s[x].k = "mdy"
    \/ EndsWithLetters(s[x]) /\ StartsWithDigit(At(s, SkipWs(s, x + 1)))
P3Text(s, x) ==
    IF s[x].k = "mdy"
    THEN Tok("md", s[x].a, s[x].b, 0, "")
    ELSE Tok("wd", LeadDigits(At(s, SkipWs(s, x + 1))), 0, 0, "")

RECURSIVE P3From(_, _)
P3From(s, x) ==
    IF x > Len(s) THEN <<>>
    ELSE IF P3Hit(s, x) THEN <<P3Text(s, x)>> \o P3From(s, x + 1)
         ELSE P3From(s, x + 1)

\* lines 74-77: the matches of the first pattern, then of the second (no
\* token of the alphabet has its shape), then of the third
DateMatches(s) == SelectSeq(s, IsYearDate) \o P3From(s, 1)

Slot(found, d, t, full, ft) ==
    [found |-> found, date_text |-> d, time_text |-> t,
     full_match |-> full, format_type |-> ft]
NoSlot == Slot(FALSE, NoTok, NoTok, <<>>, "")

\* lines 36-42
StandardizedSlot(s) ==
    LET m == LexMin(StdMatches(s))
    IN  Slot(TRUE, s[StdDatePos(s, m[3])], s[StdTimePos(s, m[3])],
             SubSeq(s, m[1], StdTimePos(s, m[3])), "standardized")

\* lines 45-62
LegacySlot(s) ==
    LET m == FirstLegacy(s, 1)
        times == TimeMatches(s)
    IN  Slot(TRUE, s[SkipWs(s, m[2] + 1)],
             IF times # <<>> THEN Last(times) ELSE NoTok,
             SubSeq(s, m[1], SkipWs(s, m[2] + 1)), "legacy")

\* lines 65-86
UnanchoredSlot(s) ==
    LET dates == DateMatches(s)
        times == TimeMatches(s)
    IN  IF dates # <<>> /\ times # <<>>
        THEN Slot(TRUE, Last(dates), Last(times),
                  <<Last(dates), W("at"), Last(times)>>, "")
        ELSE NoSlot

\* a chain that tries the legacy patterns before the standardized one
LegacyFirstSlot(s) ==
    IF FirstLegacy(s, 1) # <<>> THEN LegacySlot(s)
    ELSE IF StdMatches(s) # {} THEN StandardizedSlot(s)
    ELSE UnanchoredSlot(s)

\* lines 32-86
ConfirmedSlot(s) ==
    IF StdMatches(s) # {} THEN StandardizedSlot(s)
    ELSE IF FirstLegacy(s, 1) # <<>> THEN LegacySlot(s)
    ELSE UnanchoredSlot(s)

\* ---------------------------------------------------------- dates, times
Leap(y) == (y % 4 = 0 /\ y % 100 # 0) \/ y % 400 = 0
DaysIn(m, y) ==
    IF m = 2 THEN (IF Leap(y) THEN 29 ELSE 28)
    ELSE IF m \in {4, 6, 9, 11} THEN 30 ELSE 31
ValidDate(y, m, d) ==
    /\ y >= 1 /\ y <= 9999
    /\ m >= 1 /\ m <= 12
    /\ d >= 1 /\ d <= DaysIn(m, y)
Date(y, m, d) == [ok |-> ValidDate(y, m, d), y |-> y, m |-> m, d |-> d]
Before(p, q) ==
    \/ p.y < q.y
    \/ p.y = q.y /\ p.m < q.m
    \/ p.y = q.y /\ p.m = q.m /\ p.d < q.d

\* parser.parse(date_text, fuzzy=True) of dateutil: what the text does not
\* give comes from today's date; a lone number up to 31 is the day, a larger
\* one the year of this century
FuzzyParse(t, today) ==
    CASE t.k = "mdy" -> Date(t.c, t.a, t.b)
      [] t.k = "md" -> Date(today.y, t.a, t.b)
      [] t.k = "wd" /\ t.a <= 31 -> Date(today.y, today.m, t.a)
      [] t.k = "wd" /\ t.a > 31 -> Date(2000 + t.a, today.m, today.d)
      [] OTHER -> Date(0, 0, 0)

\* lines 113-127
LegacyDate(t, today) ==
    LET parsed_date == FuzzyParse(t, today)
    IN  IF t.k = "mdy" \/ ~parsed_date.ok \/ parsed_date.y # 1900
        THEN parsed_date
        ELSE LET d1 == Date(today.y, parsed_date.m, parsed_date.d)
             IN  IF d1.ok /\ Before(d1, today)
                 THEN Date(today.y + 1, parsed_date.m, parsed_date.d)
                 ELSE d1

\* a formatting that keeps the month first
FormatDateMonthFirst(p) == IF p.ok THEN <<p.m, p.d, p.y>> ELSE <<>>
\* strftime('%d-%m-%Y'), line 129; '' is <<>>
FormatDate(p) == IF p.ok THEN <<p.d, p.m, p.y>> ELSE <<>>

\* lines 102-132; a ValueError leaves formatted_date ''
ParseDate(slot, today) ==
    IF slot.format_type = "standardized"
    THEN FormatDate(Date(slot.date_text.c, slot.date_text.a, slot.date_text.b))
    ELSE FormatDate(LegacyDate(slot.date_text, today))

\* a conversion that adds 12 to the afternoon hours and knows no midnight
To24NoMidnight(hours, ap) ==
    IF ap = "PM" /\ hours # 12 THEN hours + 12 ELSE hours

\* lines 146-150 and 169-173
To24(hours, ap) ==
    IF ap = "PM" /\ hours # 12 THEN hours + 12
    ELSE IF ap = "AM" /\ hours = 12 THEN 0
    ELSE hours

\* lines 154-167: hours and minutes of a legacy time text ('' when no time
\* was found)
LegacyHM(t) ==
    IF t.k = "time" /\ t.c \in {0, 2} THEN <<t.a, t.b>>
    ELSE IF t.k = "time" THEN <<LeadDigits(t), 0>>
    ELSE <<0, 0>>

\* lines 134-178; f"{hours:02d}:{minutes:02d}" is <<hours, minutes>>
ParseTime(slot) ==
    IF slot.format_type = "standardized"
    THEN <<To24(slot.time_text.a, slot.time_text.f), slot.time_text.b>>
    ELSE <<To24(LegacyHM(slot.time_text)[1], slot.time_text.f),
           LegacyHM(slot.time_text)[2]>>

EmptyResult ==
    [formatted_date |-> <<>>, formatted_time |-> <<>>,
     raw_date_text |-> NoTok, raw_time_text |-> NoTok, full_text |-> <<>>]

\* an extraction with one try block around both parsers: a date that fails
\* to parse takes the time with it
extract_one_try(s, today) ==
    LET confirmed_slot == ConfirmedSlot(s)
    IN  IF confirmed_slot.found
        THEN [formatted_date |-> ParseDate(confirmed_slot, today),
              formatted_time |->
                  IF ParseDate(confirmed_slot, today) = <<>> THEN <<>>
                  ELSE ParseTime(confirmed_slot),
              raw_date_text |-> confirmed_slot.date_text,
              raw_time_text |-> confirmed_slot.time_text,
              full_text |-> confirmed_slot.full_match]
        ELSE EmptyResult

\* lines 16-205, for the text read from the file
extract_interview_slot(s, today) ==
    LET confirmed_slot == ConfirmedSlot(s)
    IN  IF confirmed_slot.found
        THEN [formatted_date |-> ParseDate(confirmed_slot, today),
              formatted_time |-> ParseTime(confirmed_slot),
              raw_date_text |-> confirmed_slot.date_text,
              raw_time_text |-> confirmed_slot.time_text,
              full_text |-> confirmed_slot.full_match]
        ELSE EmptyResult

\* ------------------------------------------------------- specification
\* the clock of the extraction run (datetime.now())
Now == Date(2025, 10, 1)

\* the pieces transcripts are made of: confirmations in the standardized
\* wording, legacy confirmations, and dates, times and words on their own
StdDates == {NumDate(6, 29, 2025), NumDate(1, 2, 2026)}
StdTimes == {TimeTok(4, 30, 0, "PM"), TimeTok(12, 0, 0, "AM")}
LegacyDates == {MDY(1, 5, 2041), MDY(3, 7, 2042)}
StdPhrase(d, t) == <<W("confirm"), W("interview"), W("on"), d, W("at"), t>>
Segments ==
    {StdPhrase(d, t) : d \in StdDates, t \in StdTimes}
    \cup {<<W("scheduled"), W("for"), d>> : d \in LegacyDates}
    \cup {<<W("interview"), W("on"), d>> : d \in LegacyDates}
    \cup {<<W("on"), NumDate(3, 4, 2027), W("at"), TimeTok(11, 15, 0, "AM")>>,
          <<TimeTok(4, 0, 1, "PM")>>, <<TimeTok(10, 0, 0, "AM")>>,
          <<MDY(3, 7, 2042)>>, <<MDY(6, 9, 0)>>,
          <<W("confirm")>>, <<NL>>}

RECURSIVE Flatten(_)
Flatten(ss) == IF ss = <<>> THEN <<>> ELSE Head(ss) \o Flatten(Tail(ss))
Transcripts ==
    {Flatten(ss) : ss \in UNION {[1..n -> Segments] : n \in 0..MaxSegs}}

BatchIdle ==
    /\ transcript_files = <<>>
    /\ results = <<>>
    /\ reports = <<>>
    /\ bpc = "idle"

ExtractIdle ==
    /\ content = <<>>
    /\ result = EmptyResult
    /\ xpc = "idle"
    /\ BatchIdle

\* one run of extract_interview_slot on a transcript file
Extract ==
    /\ xpc = "read"
    /\ result' = extract_interview_slot(content, Now)
    /\ xpc' = "done"
    /\ UNCHANGED <<content, batchVars>>
    /\ UNCHANGED <<relayVars, histVars, late, rdone, tw, io, audioVars>>

\* a run on a path that cannot be read (no such file, a directory, bytes
\* that are not UTF-8): open or read raises, lines 207-212 return None and
\* no result is built
ExtractUnreadable ==
    /\ xpc = "read"
    /\ xpc' = "failed"
    /\ UNCHANGED <<content, result, batchVars>>
    /\ UNCHANGED <<relayVars, histVars, late, rdone, tw, io, audioVars>>

Init == RelayInit /\ ExtractIdle

\* the file system starts to refuse writes (disk full, directory gone), and
\* later takes them again: one outage in the life of the server
SinkFails ==
    /\ io = "ok"
    /\ io' = "fail"
    /\ UNCHANGED <<relayVars, histVars, late, extractVars, rdone, tw, audioVars>>
SinkRecovers ==
    /\ io = "fail"
    /\ io' = "mended"
    /\ UNCHANGED <<relayVars, histVars, late, extractVars, rdone, tw, audioVars>>

InitExtract ==
    /\ RelayInit
    /\ content \in Transcripts
    /\ result = EmptyResult
    /\ xpc = "read"
    /\ BatchIdle

NextExtract == Extract

\* transcripts of one date and one time, for the parsing of the candidates:
\* dates that exist and dates that do not, with and without a year, every
\* hour of the 12-hour clock and one above it, with and without minutes, and
\* the other ways of writing a time the time pattern matches
ParseNumDates ==
    {NumDate(6, 29, 2025), NumDate(13, 45, 2025), NumDate(2, 30, 2026)}
ParseTextDates ==
    {MDY(1, 5, 2041), MDY(2, 30, 2041), MDY(3, 3, 0), MDY(12, 25, 0),
     MDY(2, 30, 0)}
Meridiems == {"AM", "PM"}
ParseTimes ==
    {TimeTok(h, m, 0, ap) : h \in 1..13, m \in {0, 30}, ap \in Meridiems}
    \cup {TimeTok(h, 0, 1, ap) : h \in 1..13, ap \in Meridiems}
    \cup {TimeTok(4, 30, 2, "PM"), TimeTok(4, 30, 3, "PM"),
          TimeTok(4, 75, 0, "PM")}
ParseTranscripts ==
    {StdPhrase(d, t) : d \in ParseNumDates, t \in ParseTimes}
    \cup {<<W("scheduled"), W("for"), d, W("at"), t>> :
             d \in ParseTextDates, t \in ParseTimes}
    \cup {<<d, t>> : d \in ParseTextDates, t \in ParseTimes}
    \cup {<<W("scheduled"), W("for"), d>> : d \in ParseTextDates}

InitParse ==
    /\ RelayInit
    /\ content \in ParseTranscripts
    /\ result = EmptyResult
    /\ xpc = "read"
    /\ BatchIdle

SpecParse == InitParse /\ [][NextExtract]_vars

SpecExtract == InitExtract /\ [][NextExtract]_vars

\* the .txt entries os.listdir can give: transcripts with a slot, with half
\* of one and with none, and an entry that cannot be read as text
BatchTexts ==
    {StdPhrase(NumDate(6, 29, 2025), TimeTok(4, 30, 0, "PM")),
     <<MDY(6, 9, 0)>>, <<W("confirm")>>}
BatchFiles ==
    {[readable |-> TRUE, text |-> t] : t \in BatchTexts}
    \cup {[readable |-> FALSE, text |-> <<>>]}

\* what one call of extract_interview_slot prints for the file: the block
\* of lines 181-203 with the date and the time ('' prints as "Not found"),
\* or the error line of 208 or 211
SlotReport(i, r) ==
    [file |-> i, kind |-> "slot",
     date |-> r.formatted_date, time |-> r.formatted_time]
ErrorReport(i) == [file |-> i, kind |-> "error", date |-> <<>>, time |-> <<>>]

\* lines 231-235: one turn of the loop, the call of extract_interview_slot
\* included; None is not appended to results
ProcessFile ==
    /\ bpc = "loop"
    /\ Len(reports) < Len(transcript_files)
    /\ LET i == Len(reports) + 1
           f == transcript_files[i]
           r == extract_interview_slot(f.text, Now)
       IN  IF f.readable
           THEN /\ results' = Append(results, r)
                /\ reports' = Append(reports, SlotReport(i, r))
           ELSE /\ results' = results
                /\ reports' = Append(reports, ErrorReport(i))
    /\ UNCHANGED <<transcript_files, bpc, content, result, xpc>>
    /\ UNCHANGED <<relayVars, histVars, late, rdone, tw, io, audioVars>>

\* lines 224-226 and 237: nothing to process, or the loop is through
BatchReturn ==
    /\ bpc = "loop"
    /\ Len(reports) = Len(transcript_files)
    /\ bpc' = "returned"
    /\ UNCHANGED <<transcript_files, results, reports, content, result, xpc>>
    /\ UNCHANGED <<relayVars, histVars, late, rdone, tw, io, audioVars>>

InitBatch ==
    /\ RelayInit
    /\ content = <<>>
    /\ result = EmptyResult
    /\ xpc = "idle"
    /\ transcript_files \in UNION {[1..n -> BatchFiles] : n \in 0..MaxFiles}
    /\ results = <<>>
    /\ reports = <<>>
    /\ bpc = "loop"
NextBatch == ProcessFile \/ BatchReturn
SpecBatch == InitBatch /\ [][NextBatch]_vars
FairBatch == SpecBatch /\ WF_vars(NextBatch)

\* the runs of extract_interview_slot on any path
NextFiles == Extract \/ ExtractUnreadable
SpecFiles == InitExtract /\ [][NextFiles]_vars

Next ==
    \E c \in Conns :
        \/ AcceptNoKey(c)
        \/ ConnectFail(c)
        \/ ConnectOk(c)
        \/ RecvMedia(c)
        \/ \E sid \in Sids : RecvStart(c, sid)
        \/ RecvOther(c)
        \/ RecvMalformed(c)
        \/ TwilioDisconnect(c)
        \/ \E t \in UserTexts : OnUserTranscript(c, t)
        \/ \E d \in DeltaTexts : OnTranscriptDelta(c, d)
        \/ OnTranscriptDone(c)
        \/ ResponseDone(c)
        \/ OtherEvent(c)
        \/ OutboundError(c)
        \/ OpenAIClose(c)
        \/ Finish(c)

Spec == Init /\ [][Next]_vars

\* the relay with the audio payloads followed, next to transcript events
\* that carry text, for calls that use one stream id
NextAudio ==
    \E c \in Conns :
        \/ ConnectOk(c)
        \/ RecvStart(c, "s1")
        \/ \E p \in MediaPayloads : RecvMediaFrame(c, p)
        \/ \E p \in AudioDeltas : OnAudioDelta(c, p)
        \/ \E t \in {u \in UserTexts : ~Blank(u)} : OnUserTranscript(c, t)
        \/ \E d \in {e \in DeltaTexts : ~Blank(e)} : OnTranscriptDelta(c, d)
        \/ OnTranscriptDone(c)
        \/ TwilioDisconnect(c)
        \/ OpenAIClose(c)
        \/ Finish(c)
SpecAudio == Init /\ [][NextAudio]_vars

\* one call with its audio in both directions and 'start' frames of any
\* stream id
NextStream ==
    \E c \in Conns :
        \/ ConnectOk(c)
        \/ \E sid \in Sids : RecvStart(c, sid)
        \/ \E p \in MediaPayloads : RecvMediaFrame(c, p)
        \/ \E p \in AudioDeltas : OnAudioDelta(c, p)
        \/ TwilioDisconnect(c)
        \/ OpenAIClose(c)
        \/ Finish(c)
SpecStream == Init /\ [][NextStream]_vars

\* two calls side by side, each with a stream id of its own, up to the
\* disconnect of their telephony legs
InitTwo == RelayInitFor(Conns) /\ ExtractIdle
CallStep(c, sid) ==
    \/ ConnectOk(c)
    \/ RecvStart(c, sid)
    \/ \E t \in {u \in UserTexts : ~Blank(u)} : OnUserTranscript(c, t)
    \/ \E d \in {e \in DeltaTexts : ~Blank(e)} : OnTranscriptDelta(c, d)
    \/ OnTranscriptDone(c)
    \/ TwilioDisconnect(c)
NextTwo == CallStep("c1", "s1") \/ CallStep("c2", "s2")
SpecTwo == InitTwo /\ [][NextTwo]_vars

\* the relay on a file system that can fail: the calls that start a
\* session, the transcript events, and the ways a call ends
NextIO ==
    \/ SinkFails
    \/ SinkRecovers
    \/ \E c \in Conns :
          \/ ConnectOk(c)
          \/ \E sid \in Sids : RecvStart(c, sid)
          \/ TwilioDisconnect(c)
          \/ \E t \in UserTexts : OnUserTranscript(c, t)
          \/ \E d \in DeltaTexts : OnTranscriptDelta(c, d)
          \/ OnTranscriptDone(c)
          \/ OpenAIClose(c)
          \/ Finish(c)
SpecIO == Init /\ [][NextIO]_vars

\* The event loop resumes handle_media_stream as soon as gather has both
\* results, and the telephony leg streams media frames for as long as the
\* call is up, so a frame that cannot be forwarded does arrive; the other
\* frames, the events and the disconnects of the two legs are the
\* environment's and come when they come.
FairSpec ==
    Spec /\ \A c \in Conns : WF_vars(Finish(c)) /\ WF_vars(RecvMedia(c))

\* ------------------------------------------------------------ properties
Handles == 1..Len(handles)
Footers(h) ==
    Cardinality({i \in 1..Len(handles[h].content) :
                     handles[h].content[i].kind = "footer"})
\* the utterance lines of a file
Lines(h) == SelectSeq(handles[h].content, LAMBDA e : e.kind = "line")
registries == <<conversation_transcripts, transcript_file_handles>>

\* the sink a close of sid has finalized
ClosedSinks(sid) == {h \in Handles : handles[h].sid = sid /\ handles[h].closed}

C1_State ==
    /\ ~closeRaised
    /\ \A h \in Handles :
          /\ Footers(h) <= 1
          /\ handles[h].closes <= 1
          /\ handles[h].closed <=> (Footers(h) = 1 /\ handles[h].closes = 1)
          /\ handles[h].closed => Last(handles[h].content) = Footer
    /\ \A sid \in Sids :
          closeInv[sid] >= 1 =>
              /\ sid \notin DOMAIN transcript_file_handles
              /\ sid \notin DOMAIN conversation_transcripts
              /\ Cardinality(ClosedSinks(sid)) = 1

C1_Step ==
    \A sid \in Sids :
        (closeInv[sid] >= 1 /\ closeInv'[sid] > closeInv[sid])
            => UNCHANGED <<registries, handles>>

\* C1: close_transcript_file is idempotent. However often and from whichever
\* call site (344, 349, 468) it is invoked for a stream id, no invocation
\* raises, the footer is written once and the file closed once, and every
\* invocation after the first leaves both registries and every file unchanged.
C1_CloseIdempotent == []C1_State /\ [][C1_Step]_vars

\* a stream id closed twice, from the inbound handler and from the finally
\* block, whose file carries its footer
C1_Witness ==
    \E sid \in Sids :
        /\ closeInv[sid] >= 2
        /\ ClosedSinks(sid) # {}

Started(c) == stream_sid[c] # None
TornDown(c) ==
    /\ stream_sid[c] \notin DOMAIN transcript_file_handles
    /\ ClosedSinks(stream_sid[c]) # {}

\* C2: for a started session the end of either relay task, whatever ended
\* it, leads to the teardown of the session (footer written, file closed,
\* registry entry removed), which happens once; the end of the outbound task
\* alone is enough.
C2_TaskEndTearsDown ==
    /\ \A c \in Conns : (Started(c) /\ rx[c] = "done") ~> TornDown(c)
    /\ \A c \in Conns : (Started(c) /\ tx[c] = "done") ~> TornDown(c)
    /\ [](\A h \in Handles : Footers(h) <= 1 /\ handles[h].closes <= 1)

\* C3: when one of the two relay tasks of a call ends, the other one ends
\* too, without its own leg having to disconnect.
C3_SiblingStops ==
    /\ \A c \in Conns : (rx[c] = "done") ~> (tx[c] = "done")
    /\ \A c \in Conns : (tx[c] = "done") ~> (rx[c] = "done")

\* what the claims of the extractor expect of a date text and a time text
Hour24(t) ==
    IF t.f = "PM" /\ t.a # 12 THEN t.a + 12
    ELSE IF t.f = "AM" /\ t.a = 12 THEN 0
    ELSE t.a
DayFirst(d) == <<d.b, d.a, d.c>>
Returns(d, t) ==
    /\ result.formatted_date = DayFirst(d)
    /\ result.formatted_time = <<Hour24(t), t.b>>
\* the date and the time a standardized phrase of the transcript binds
StdDateOf(m) == content[StdDatePos(content, m[3])]
StdTimeOf(m) == content[StdTimePos(content, m[3])]
\* the standardized phrases of the transcript: from each "confirm" that
\* starts one, the match the pattern makes from there
StdPhrases ==
    {LexMin({t \in StdMatches(content) : t[1] = i}) :
        i \in {t[1] : t \in StdMatches(content)}}
\* the positions of the dates of the legacy confirmations of the transcript
LegacyMentions ==
    {SkipWs(content, m[2] + 1) :
        m \in UNION {LegacyMatches(content, legacy_patterns[p]) :
                        p \in 1..Len(legacy_patterns)}}
Max(S) == CHOOSE x \in S : \A y \in S : y <= x

\* C4, as stated: whichever standardized phrase the transcript contains,
\* the extraction returns the date of that phrase, day first, and its time
\* on the 24-hour clock, whatever else the transcript holds.
C4_AnyStandardized ==
    xpc = "done" =>
        \A m \in StdPhrases : Returns(StdDateOf(m), StdTimeOf(m))

\* C4: a transcript that contains a standardized phrase yields the date of
\* its first standardized phrase, day first, and the time of that phrase on
\* the 24-hour clock, whatever legacy phrases, dates and times stand before
\* or after it.
C4_FirstStandardized ==
    (xpc = "done" /\ StdMatches(content) # {}) =>
        Returns(StdDateOf(LexMin(StdMatches(content))),
                StdTimeOf(LexMin(StdMatches(content))))

\* a standardized phrase that follows a legacy confirmation and is followed
\* by another time, and the extraction has returned the date and the time of
\* the phrase
C4_Witness ==
    /\ xpc = "done"
    /\ StdMatches(content) # {}
    /\ \E q \in LegacyMentions :
          /\ q < LexMin(StdMatches(content))[1]
          /\ DayFirst(content[q]) # result.formatted_date
    /\ IsTime(Last(content))
    /\ <<Hour24(Last(content)), Last(content).b>> # result.formatted_time
    /\ Returns(StdDateOf(LexMin(StdMatches(content))),
               StdTimeOf(LexMin(StdMatches(content))))

\* C5: with no standardized phrase and two or more legacy date mentions the
\* extraction returns the legacy date mentioned last and the time mentioned
\* last.
C5_LastLegacyDate ==
    ( /\ xpc = "done"
      /\ StdMatches(content) = {}
      /\ Cardinality(LegacyMentions) >= 2 )
        => /\ result.formatted_date = DayFirst(content[Max(LegacyMentions)])
           /\ TimeMatches(content) # <<>> =>
                 result.formatted_time =
                     <<Hour24(Last(TimeMatches(content))),
                       Last(TimeMatches(content)).b>>

\* the utterance lines a step adds to file h
LinesOf(hs, h) == SelectSeq(hs[h].content, LAMBDA e : e.kind = "line")
Added(h) ==
    SubSeq(LinesOf(handles', h), Len(LinesOf(handles, h)) + 1,
           Len(LinesOf(handles', h)))
Sink(sid) == transcript_file_handles[sid]

C6_State ==
    \A sid \in DOMAIN transcript_file_handles :
        sid \in DOMAIN conversation_transcripts =>
            Len(Lines(Sink(sid))) = nfinal[sid]

C6_Step ==
    \A sid \in DOMAIN transcript_file_handles :
        \A i \in 1..Len(Added(Sink(sid))) :
            Added(Sink(sid))[i].speaker = AI =>
                /\ phase[sid] = "accumulating"
                /\ Added(Sink(sid))[i].text = acc[sid]

\* C6: the utterance lines of a session's file are as many as the utterances
\* finalized in the session (caller transcriptions and assistant responses
\* ended by their done signal, with non-blank text), and an assistant line
\* holds the text of the response the done signal ends and nothing written
\* before.
C6_LinesMatchUtterances == []C6_State /\ [][C6_Step]_vars

C7_State ==
    /\ \A h \in Handles :
          ~handles[h].closed =>
              \E sid \in DOMAIN transcript_file_handles : Sink(sid) = h
    /\ \A sid \in DOMAIN conversation_transcripts :
          Cardinality({h \in Handles :
                          handles[h].sid = sid /\ ~handles[h].closed}) <= 1

C7_Step ==
    \A c \in Conns, sid \in Sids :
        (RecvStart(c, sid) /\ sid \in DOMAIN conversation_transcripts)
            => UNCHANGED <<registries, handles>>

\* C7: an active session owns at most one open file and every open file is
\* referenced by the registry; a 'start' frame for a stream id that is active
\* changes neither the session record nor the registry nor any file.
C7_OneSinkPerSession == []C7_State /\ [][C7_Step]_vars

C8_Step ==
    \A sid \in DOMAIN transcript_file_handles :
        ( /\ closeInv[sid] = 0
          /\ closeInv'[sid] = 1
          /\ phase[sid] = "accumulating"
          /\ ~Blank(acc[sid]) )
            => handles'[Sink(sid)].content =
                   handles[Sink(sid)].content \o <<Line(AI, acc[sid]), Footer>>

\* C8: the first close of a session with an assistant response in progress
\* (deltas received, no done signal yet) writes the accumulated text as a
\* line and then the footer.
C8_CloseFinalizes == [][C8_Step]_vars

C9_Step ==
    \A c \in Conns, d \in DeltaTexts \ {<<>>} :
        ( /\ OnTranscriptDelta(c, d)
          /\ Active(c)
          /\ phase[stream_sid[c]] = "finalized" )
            => conversation_transcripts'[stream_sid[c]].messages =
                   Append(conversation_transcripts[stream_sid[c]].messages,
                          Msg(AI, d))

\* C9: the first assistant delta after a done signal opens a new utterance
\* that holds this delta alone.
C9_DeltaAfterDoneOpensNew == [][C9_Step]_vars

C10_Step ==
    /\ \A c \in Conns, d \in DeltaTexts :
          OnTranscriptDelta(c, d) => UNCHANGED handles
    /\ \A h \in Handles :
          \A i \in 1..Len(Added(h)) :
              Added(h)[i].speaker = AI =>
                  \E c \in Conns :
                      /\ OnTranscriptDone(c)
                      /\ Active(c)
                      /\ Sink(stream_sid[c]) = h
                      /\ Len(Added(h)) = 1
                      /\ Added(h)[i].text =
                           Last(conversation_transcripts[stream_sid[c]].messages).text

C11_Step ==
    \A c \in Conns :
        (RecvOther(c) \/ RecvMalformed(c) \/ OtherEvent(c) \/ OutboundError(c))
            => /\ rx'[c] = rx[c]
               /\ tx'[c] = tx[c]
               /\ UNCHANGED <<registries, handles, closeInv>>

\* C11: a frame of an unexpected shape from either leg (unknown event or
\* type, no event or type field, payload that does not parse) is skipped:
\* the task that received it stays in its loop and no teardown happens.
C11_MalformedSkipped == [][C11_Step]_vars

\* C12: whatever fails (speech-leg connection, either leg, a send, the
\* sink, a malformed frame), handle_media_stream returns normally: no
\* exception leaves it.
C12_NoExceptionEscapes == \A c \in Conns : pc[c] # "raised"

C13_Step ==
    \A c \in Conns :
        (Active(c) /\ Store.fault) =>
            /\ \A t \in UserTexts :
                  (OnUserTranscript(c, t) /\ ~Blank(t)) =>
                      /\ tx'[c] = "run"
                      /\ conversation_transcripts'[stream_sid[c]].messages =
                           Append(conversation_transcripts[stream_sid[c]].messages,
                                  Msg(User, t))
                      /\ UNCHANGED transcript_file_handles
            /\ OnTranscriptDone(c) =>
                  /\ tx'[c] = "run"
                  /\ UNCHANGED <<conversation_transcripts,
                                 transcript_file_handles>>

\* C13: when the write of an utterance fails, no exception reaches the
\* relay task (it stays in its loop), the utterance is in the message list
\* of the session, and the sink stays registered for the writes to come.
C13_WriteFailureTolerated == [][C13_Step]_vars

\* a session with two caller utterances in memory of which the file holds
\* one: one write failed, another one went through
C13_Witness ==
    \E c \in Conns :
        /\ Active(c)
        /\ stream_sid[c] \in DOMAIN transcript_file_handles
        /\ Len(conversation_transcripts[stream_sid[c]].messages) = 2
        /\ \A i \in 1..2 :
              conversation_transcripts[stream_sid[c]].messages[i] =
                  Msg(User, <<"u">>)
        /\ Len(Lines(Sink(stream_sid[c]))) = 1
        /\ tx[c] = "run"

C14_State == \A c \in Conns : Len(sent[c]) = heard[c]
C14_Step ==
    \A c \in Conns, p \in AudioDeltas :
        (OnAudioDelta(c, p) /\ p # "" /\ tw[c] = "open") =>
            /\ Len(sent'[c]) = Len(sent[c]) + 1
            /\ SubSeq(sent'[c], 1, Len(sent[c])) = sent[c]
            /\ Last(sent'[c]).payload = p

\* C14: every audio delta with a non-empty payload that arrives from the
\* speech leg while the telephony leg is connected is sent on as exactly one
\* media frame with that payload.
C14_AudioForwarded == []C14_State /\ [][C14_Step]_vars

C15_Step ==
    \A c \in Conns :
        ResponseDone(c) =>
            UNCHANGED <<conversation_transcripts, transcript_file_handles,
                        handles, stream_sid, closeInv, pc, rx, tx, oa>>

\* C15: handling response.done changes nothing: session record, both
\* registries and the files stay as they are, no teardown is triggered and
\* both tasks stay in their loops.
C15_ResponseDoneNoEffect == [][C15_Step]_vars

\* a response.done has been handled in a session that is still open, with
\* both tasks running
C15_Witness ==
    \E c \in Conns :
        /\ rdone[c]
        /\ Active(c)
        /\ stream_sid[c] \in DOMAIN transcript_file_handles
        /\ rx[c] = "run"
        /\ tx[c] = "run"

\* s is t, or t with one more element at its end
Grown(s, t) ==
    \/ s = t
    \/ Len(s) = Len(t) + 1 /\ SubSeq(s, 1, Len(t)) = t
C16_Step ==
    /\ \A c \in Conns :
          /\ Grown(fwd'[c], fwd[c])
          /\ Grown(sent'[c], sent[c])
          /\ \A p \in MediaPayloads :
                (RecvMediaFrame(c, p) /\ fwd'[c] # fwd[c]) => Last(fwd'[c]) = p
          /\ \A p \in AudioDeltas :
                (OnAudioDelta(c, p) /\ sent'[c] # sent[c]) =>
                    Last(sent'[c]).payload = p
    /\ \A h \in Handles :
          /\ Grown(handles'[h].content, handles[h].content)
          /\ Grown(LinesOf(handles', h), LinesOf(handles, h))

\* C16: each source is handled in arrival order. The event a step handles
\* adds its payload, frame or line at the end of what was forwarded, sent or
\* written before, and nothing already there is moved or removed.
C16_ArrivalOrder == [][C16_Step]_vars

\* two media payloads forwarded in the order they came, two frames sent in
\* the order of their deltas, and an utterance line in the file
C16_Witness ==
    \E c \in Conns :
        /\ fwd[c] = <<"p", "q">>
        /\ Len(sent[c]) = 2
        /\ sent[c][1].payload = "q"
        /\ sent[c][2].payload = "p"
        /\ Active(c)
        /\ stream_sid[c] \in DOMAIN transcript_file_handles
        /\ Len(Lines(Sink(stream_sid[c]))) = 1

\* what call b owns: its position, its tasks, its session record with the
\* utterance list, and its sink
C17_Untouched(b) ==
    /\ stream_sid'[b] = stream_sid[b]
    /\ pc'[b] = pc[b] /\ rx'[b] = rx[b] /\ tx'[b] = tx[b] /\ oa'[b] = oa[b]
    /\ stream_sid[b] \in DOMAIN conversation_transcripts =>
          /\ stream_sid[b] \in DOMAIN conversation_transcripts'
          /\ conversation_transcripts'[stream_sid[b]] =
                conversation_transcripts[stream_sid[b]]
    /\ stream_sid[b] \in DOMAIN transcript_file_handles =>
          /\ stream_sid[b] \in DOMAIN transcript_file_handles'
          /\ transcript_file_handles'[stream_sid[b]] =
                transcript_file_handles[stream_sid[b]]
          /\ handles'[Sink(stream_sid[b])] = handles[Sink(stream_sid[b])]
C17_Step ==
    /\ CallStep("c1", "s1") => C17_Untouched("c2")
    /\ CallStep("c2", "s2") => C17_Untouched("c1")

\* C17: with two calls under distinct stream ids, a step of one call, its
\* close included, leaves the other call's session record, utterance list,
\* registry entries and file as they are.
C17_CallsIndependent == [][C17_Step]_vars

\* one call closed, footer in its file, while the other call's session is
\* open with an utterance in its list and in its file
C17_Witness ==
    /\ closeInv["s1"] >= 1
    /\ ClosedSinks("s1") # {}
    /\ Active("c2")
    /\ stream_sid["c2"] = "s2"
    /\ "s2" \in DOMAIN transcript_file_handles
    /\ Len(conversation_transcripts["s2"].messages) >= 1
    /\ Len(Lines(Sink("s2"))) >= 1
    /\ ~handles[Sink("s2")].closed

\* the utterance lines of file h that have left the buffer
DurableLines(h) ==
    SelectSeq(SubSeq(handles[h].content, 1, handles[h].durable),
              LAMBDA e : e.kind = "line")
C18_State ==
    /\ \A h \in Handles : handles[h].durable = Len(handles[h].content)
    /\ \A sid \in DOMAIN transcript_file_handles :
          sid \in DOMAIN conversation_transcripts =>
              Len(DurableLines(Sink(sid))) >= nfinal[sid]

\* C18: every line written is flushed before the write returns, so between
\* two events all that was written is durable, and every utterance finalized
\* so far has a durable line: a crash loses none of them.
C18_FlushedNoLoss == []C18_State

\* the chain reached the unanchored stage: no confirmation pattern matched
NoConfirmation == StdMatches(content) = {} /\ FirstLegacy(content, 1) = <<>>
\* the positions of the date mentions of any grammar, and the mention that
\* starts at a position: with its year where it has one
DateMentions == {x \in Pos(content) : IsYearDate(content[x]) \/ P3Hit(content, x)}
MentionAt(x) ==
    IF IsYearDate(content[x]) THEN content[x] ELSE P3Text(content, x)

\* C19: in the unanchored stage, with a date mention and a time mention in
\* the transcript, the date reported is the date mention that comes last in
\* the transcript and the time reported is the time mention that comes last.
C19_LastDateLastTime ==
    (/\ xpc = "done"
     /\ NoConfirmation
     /\ DateMentions # {}
     /\ TimeMatches(content) # <<>>)
        => /\ result.raw_date_text = MentionAt(Max(DateMentions))
           /\ result.raw_time_text = Last(TimeMatches(content))

\* C20: the two fields of the result are found independently of each other in
\* every stage: a transcript with a date mention has a date in the result
\* and one without a time mention has no time in it, and the same the other
\* way round.
C20_FieldsIndependent ==
    xpc = "done" =>
        /\ (DateMentions # {}) = (result.formatted_date # <<>>)
        /\ (TimeMatches(content) # <<>>) = (result.formatted_time # <<>>)

\* the date a candidate text denotes exists in the calendar
DateExists(t) ==
    IF t.k = "num" THEN ValidDate(t.c, t.a, t.b) ELSE FuzzyParse(t, Now).ok

\* C21: the two candidates are parsed apart: a date candidate that fails to
\* parse leaves formatted_date empty and nothing else, the time is computed
\* from the time candidate all the same, and a date candidate that parses is
\* reported whatever the time candidate is.
C21_ParseFailureLocal ==
    (xpc = "done" /\ result.raw_date_text # NoTok) =>
        /\ (result.formatted_date = <<>>) = ~DateExists(result.raw_date_text)
        /\ result.formatted_time # <<>>
        /\ result.raw_time_text # NoTok =>
              result.formatted_time[2] = result.raw_time_text.b
                  \/ result.raw_time_text.c \in {1, 3}

\* a standardized phrase with a date that does not exist: the date is empty
\* and the time of the phrase is reported
C21_Witness ==
    /\ xpc = "done"
    /\ StdMatches(content) # {}
    /\ ~DateExists(result.raw_date_text)
    /\ result.formatted_date = <<>>
    /\ result.formatted_time = <<16, 30>>

\* the next occurrence of the day and month of a date text without a year
NextOccurrence(t, today) ==
    IF Before(Date(today.y, t.a, t.b), today)
    THEN <<t.b, t.a, today.y + 1>>
    ELSE <<t.b, t.a, today.y>>

\* C22: a date text without a year that is paired in the legacy or the
\* unanchored stage is reported in the current year, or in the next year
\* when that day of the current year lies before the day of the extraction.
C22_YearRolledForward ==
    (/\ xpc = "done"
     /\ result.raw_date_text.k = "md"
     /\ DateExists(result.raw_date_text))
        => result.formatted_date = NextOccurrence(result.raw_date_text, Now)

\* a time of the 12-hour clock, written with minutes ("4:30 PM", "4.30 PM")
\* or without ("4 PM")
Clock12(t) ==
    /\ t.k = "time"
    /\ t.a \in 1..12
    /\ t.b \in 0..59
    /\ t.c \in {0, 1, 2}

\* C23: a paired time of the 12-hour clock is reported on the 24-hour
\* clock: 12 AM is hour 0, 12 PM stays 12, the other PM hours gain 12, the
\* other AM hours stay, and a time written without minutes has minutes 00.
C23_TwentyFourHour ==
    (xpc = "done" /\ Clock12(result.raw_time_text)) =>
        result.formatted_time =
            <<Hour24(result.raw_time_text),
              IF result.raw_time_text.c = 1 THEN 0 ELSE result.raw_time_text.b>>

\* "12 AM" after a legacy confirmation has been reported as 00:00
C23_Witness ==
    /\ xpc = "done"
    /\ result.raw_time_text = TimeTok(12, 0, 1, "AM")
    /\ FirstLegacy(content, 1) # <<>>
    /\ result.formatted_time = <<0, 0>>

\* C24: every run of extract_interview_slot returns a result: with a
\* candidate, or with every field empty when no stage finds one; no run ends
\* without a result.
C24_AlwaysAResult ==
    /\ xpc # "failed"
    /\ (xpc = "done" /\ ~ConfirmedSlot(content).found) => result = EmptyResult

C25_State ==
    /\ Len(reports) <= Len(transcript_files)
    /\ \A k \in 1..Len(reports) : reports[k].file = k
    /\ bpc = "returned" => Len(reports) = Len(transcript_files)
C25_Pairs ==
    \A k \in 1..Len(reports) : reports[k].kind = "slot"

\* C25: the batch goes through the files one by one, each file once; a file
\* that fails does not stop it; it ends, and when it has ended there is one
\* report for each file, with the date and time extracted from the file or
\* "Not found".
C25_OneReportPerFile ==
    /\ []C25_State
    /\ []C25_Pairs
    /\ <>(bpc = "returned")

\* C26: when handle_media_stream has returned, the registries hold no entry
\* of the call and every file opened during the call is closed, also after
\* an open that failed and after more than one 'start' frame. (One call is
\* followed: every entry and every file is of that call.)
C26_NothingLeftBehind ==
    \A c \in Conns :
        (pc[c] = "returned" /\ Started(c)) =>
            /\ DOMAIN conversation_transcripts = {}
            /\ DOMAIN transcript_file_handles = {}
            /\ \A h \in Handles : handles[h].closed

EndsWith(t, u) ==
    Len(u) <= Len(t) /\ SubSeq(t, Len(t) - Len(u) + 1, Len(t)) = u
\* the session of c has an assistant response in progress, with text, and the
\* caller's utterance was recorded after its deltas
CallerCutIn(c) ==
    /\ Active(c)
    /\ stream_sid[c] \in DOMAIN transcript_file_handles
    /\ phase[stream_sid[c]] = "accumulating"
    /\ ~Blank(acc[stream_sid[c]])
    /\ conversation_transcripts[stream_sid[c]].messages # <<>>
    /\ Last(conversation_transcripts[stream_sid[c]].messages).speaker = User

C27_Step ==
    \A c \in Conns :
        (CallerCutIn(c) /\ OnTranscriptDone(c)) =>
            \E i \in 1..Len(LinesOf(handles', Sink(stream_sid[c]))) :
                /\ LinesOf(handles', Sink(stream_sid[c]))[i].speaker = AI
                /\ EndsWith(LinesOf(handles', Sink(stream_sid[c]))[i].text,
                            acc[stream_sid[c]])

\* C27: when the caller's transcription arrives between the deltas of an
\* assistant response and its done signal, the deltas received so far are
\* kept: once the done signal is handled the file has an assistant line with
\* the text of the response.
C27_DeltasSurviveCaller == [][C27_Step]_vars

\* the entries of a file that follow its first footer
AfterFooter(h) ==
    LET c == handles[h].content
        f == {i \in 1..Len(c) : c[i].kind = "footer"}
    IN  IF f = {} THEN <<>>
        ELSE SubSeq(c, (CHOOSE i \in f : \A j \in f : i <= j) + 1, Len(c))

C28_State ==
    \A h \in Handles : \A i \in 1..Len(AfterFooter(h)) :
        AfterFooter(h)[i].kind # "line"
C28_Step ==
    \A h \in Handles :
        Footers(h) > 0 => LinesOf(handles', h) = LinesOf(handles, h)

\* C28: no utterance line follows the footer of a file: once the footer is
\* written, no event the outbound task still handles adds a line to it.
C28_NoLineAfterFooter == []C28_State /\ [][C28_Step]_vars

\* the inbound task has closed the session, the outbound task has handled a
\* transcript event after that, and the file ends with its footer
C28_Witness ==
    \E c \in Conns : \E h \in Handles :
        /\ late[c]
        /\ rx[c] = "done"
        /\ handles[h].sid = stream_sid[c]
        /\ Footers(h) = 1
        /\ Last(handles[h].content) = Footer

C29_State ==
    \A c \in Conns : stream_sid[c] = None => sent[c] = <<>>
C29_Step ==
    /\ \A c \in Conns :
          sent'[c] # sent[c] =>
              /\ stream_sid[c] # None
              /\ sent'[c] = Append(sent[c], Last(sent'[c]))
              /\ Last(sent'[c]).streamSid = stream_sid[c]
    /\ \A c \in Conns, p \in MediaPayloads :
          (RecvMediaFrame(c, p) /\ oa[c] = "open") =>
              fwd'[c] = Append(fwd[c], p)

\* C29: no media frame goes to the telephony leg before a 'start' frame was
\* handled, every media frame sent carries the stream id of the latest
\* 'start' frame, and a media frame of the telephony leg is passed on to the
\* speech leg with or without a 'start' frame before it.
C29_FramesCarryStreamId == []C29_State /\ [][C29_Step]_vars

\* frames were sent under two stream ids, the later ones under the id of
\* the second 'start' frame, and audio of the caller was passed on
C29_Witness ==
    \E c \in Conns :
        /\ Len(sent[c]) >= 2
        /\ sent[c][1].streamSid # Last(sent[c]).streamSid
        /\ Last(sent[c]).streamSid = stream_sid[c]
        /\ fwd[c] # <<>>

\* C30: a time that is reported is a time of the 24-hour clock, hour 0..23
\* and minute 0..59, whatever time text was paired.
C30_ValidTime ==
    (xpc = "done" /\ result.formatted_time # <<>>) =>
        /\ result.formatted_time[1] \in 0..23
        /\ result.formatted_time[2] \in 0..59

====
